---- MODULE Spec2Model ----
(***************************************************************************)
(* A model of cst2py: the field store built by load_fields, the nearest-   *)
(* grid-point slicer slice_1d, the export drivers of fields.py, and the    *)
(* phase normaliser rotate_phase and the impedance calculators kickerLong  *)
(* and kickerTrans of sc.py.                                               *)
(*                                                                         *)
(* Arrays are functions over 0..n-1, as numpy indexes them.  A complex     *)
(* number is a pair <<re, im>>.  Quotients are kept exact, as reduced      *)
(* fractions <<num, den>> with den > 0.                                    *)
(***************************************************************************)
EXTENDS Integers, Sequences, FiniteSets, TLC

VARIABLES
    efield_names,   \* slice_1d / load_fields: names of the E-field results
    hfield_names,   \* names of the H-field results
    xlines,         \* mesh lines along x
    ylines,         \* mesh lines along y
    zlines,         \* mesh lines along z
    fields3d,       \* fields3d[i][c][ix][iy][iz]
    x0req,          \* the x0 slice_1d is called with
    y0req,          \* the y0 slice_1d is called with
    sl,             \* the call of slice_1d: its locals, its return value or its exception
    field_names,    \* load_fields: "E-Field" / "H-Field" of each result
    freq_names,     \* load_fields: the "(f=...)" token of each result
    freqs,          \* load_fields: the frequency of each result, scaled
    solver,         \* what the result reader DLL answers for each project file
    handles,        \* the project handles the DLL holds open
    lf,             \* the call of load_fields: its position, its locals, its exception
    srcFiles,       \* os.listdir(sProjectPath): the files of the project directory
    fs,             \* the destination: whether hd5BasePath exists, and its subdirectories
    bt,             \* the call of all_projects_to_1d_files / all_projects_to_3d_files
    pj,             \* the call of project_to_1d_files / project_to_3d_files
    A,              \* rotate_phase: the array, A[k][j] of frequency row k and position j
    f,              \* rotate_phase: the frequency of each row
    f1,             \* rotate_phase: the first reference frequency
    f2,             \* rotate_phase: the second reference frequency
    rp,             \* the call of rotate_phase: its locals and its return value
    Earr,           \* kickerLong / kickerTrans: the caller's field array, Ez or dEz_du
    zs,             \* the positions along the beam, in units of 1 / ZScale metres
    fq,             \* the frequency of each row of the field array
    kk              \* the last call of kickerLong / kickerTrans: its arguments and its outcome

sliceVars == <<x0req, y0req, sl>>

storeVars == <<efield_names, hfield_names, xlines, ylines, zlines, fields3d,
               field_names, freq_names, freqs>>

loadVars == <<solver, handles, lf>>

batchVars == <<srcFiles, fs, bt, pj>>

phaseVars == <<A, f, f1, f2, rp>>

\* the variables of sc.py
kickVars == <<Earr, zs, fq, kk>>

scVars == <<phaseVars, kickVars>>

vars == <<storeVars, sliceVars, loadVars, batchVars, scVars>>

(***************************************************************************)
(* Bounds of the model.                                                    *)
(***************************************************************************)
\* the largest number of mesh lines along x and along y (the least is 2)
MaxN == 3
\* mesh coordinates and requested positions are drawn from 0..MaxCoord
MaxCoord == 2
\* the number of mesh lines along z
NZ == 2
\* load_fields: the solver's mesh has 1..MaxDim lines along each axis
MaxDim == 2
\* the number of batch runs made one after the other
MaxRuns == 2
\* rotate_phase: phases are whole multiples of a half turn / HalfTurn
HalfTurn == 2
\* rotate_phase: frequencies are drawn from 0..MaxFreq
MaxFreq == 3
\* rotate_phase: the number of frequency rows
NF == 3
\* kickerLong / kickerTrans: f and the field array have 1..MaxNf rows
MaxNf == 2
\* z and the field array have 1..MaxNz positions
MaxNz == 3
\* positions and integration limits are drawn from -1..MaxZ
MaxZ == 1
\* a metre is ZScale units of z
ZScale == 1250
\* the number of calls made one after the other on the same array
MaxCalls == 2

(***************************************************************************)
(* Arrays and numbers.                                                     *)
(***************************************************************************)
\* len(a) of a 0-based array
len(a) == Cardinality(DOMAIN a)

\* a Python list as a 0-based array
List(s) == [i \in 0..(Len(s) - 1) |-> s[i + 1]]

\* list concatenation, efield_names + hfield_names
Concat(a, b) ==
    [i \in 0..(len(a) + len(b) - 1) |-> IF i < len(a) THEN a[i] ELSE b[i - len(a)]]

abs(v) == IF v < 0 THEN -v ELSE v

RECURSIVE Gcd(_, _)
Gcd(a, b) == IF b = 0 THEN a ELSE Gcd(b, a % b)

\* the quotient n / d, d # 0, as a reduced fraction
Quot(n, d) ==
    LET g == Gcd(abs(n), abs(d))
        s == IF d < 0 THEN -1 ELSE 1
    IN  <<(s * n) \div g, (s * d) \div g>>

\* complex subtraction
CSub(a, b) == <<a[1] - b[1], a[2] - b[2]>>

\* a complex number divided by a real one
CDivReal(a, d) == <<Quot(a[1], d), Quot(a[2], d)>>

(***************************************************************************)
(* numpy.argmin: the index of the first occurrence of the minimum.         *)
(***************************************************************************)
RECURSIVE ArgMinLastFrom(_, _, _)
ArgMinLastFrom(a, i, best) ==
    IF i >= len(a) THEN best
    ELSE ArgMinLastFrom(a, i + 1, IF a[i] <= a[best] THEN i ELSE best)

RECURSIVE ArgMinFrom(_, _, _)
ArgMinFrom(a, i, best) ==
    IF i >= len(a) THEN best
    ELSE ArgMinFrom(a, i + 1, IF a[i] < a[best] THEN i ELSE best)

argmin_last(a) == ArgMinLastFrom(a, 1, 0)

argmin(a) == ArgMinFrom(a, 1, 0)

\* numpy.abs(lines - v)
AbsDiff(lines, v) == [i \in DOMAIN lines |-> abs(lines[i] - v)]

(***************************************************************************)
(* slice_1d.  Indexing an array past its end raises IndexError; the        *)
(* statements run in the order of the source, so the lookup along x fails  *)
(* before the lookup along y is made.                                      *)
(***************************************************************************)
NoSlice == [pc |-> "idle", exc |-> "", ix |-> -1, iy |-> -1, ret |-> <<>>]

\* z_comp_3d[ix, iy, :]
ZLine(z_comp_3d, i, j) == [k \in DOMAIN z_comp_3d[i][j] |-> z_comp_3d[i][j][k]]

\* (a - b) / d, element by element
GradLine(a, b, d) == [k \in DOMAIN a |-> CDivReal(CSub(a[k], b[k]), d)]

slice_1d_wrap(efn, hfn, xl, yl, zl, f3d, x0, y0) ==
    LET ix == argmin(AbsDiff(xl, x0))
        iy == argmin(AbsDiff(yl, y0))
        ixn == (ix + 1) % len(xl)
        iyn == (iy + 1) % len(yl)
        dx == xl[ixn] - xl[ix]
        dy == yl[iyn] - yl[iy]
        n == len(Concat(efn, hfn))
    IN  [pc |-> "returned", exc |-> "", ix |-> ix, iy |-> iy,
         ret |-> [z_comps |-> [i \in 0..(n - 1) |-> ZLine(f3d[i][2], ix, iy)],
                  x_grads |-> [i \in 0..(n - 1) |->
                                 GradLine(ZLine(f3d[i][2], ixn, iy),
                                          ZLine(f3d[i][2], ix, iy), dx)],
                  y_grads |-> [i \in 0..(n - 1) |->
                                 GradLine(ZLine(f3d[i][2], ix, iyn),
                                          ZLine(f3d[i][2], ix, iy), dy)],
                  x0 |-> xl[ix], y0 |-> yl[iy]]]

slice_1d_backward(efn, hfn, xl, yl, zl, f3d, x0, y0) ==
    LET ix == argmin(AbsDiff(xl, x0))
        iy == argmin(AbsDiff(yl, y0))
        n == len(Concat(efn, hfn))
    IN  IF ix + 1 \notin DOMAIN xl
        THEN [pc |-> "raised", exc |-> "IndexError", ix |-> ix, iy |-> -1, ret |-> <<>>]
        ELSE IF iy + 1 \notin DOMAIN yl
        THEN [pc |-> "raised", exc |-> "IndexError", ix |-> ix, iy |-> iy, ret |-> <<>>]
        ELSE LET dx == xl[ix + 1] - xl[ix]
                 dy == yl[iy + 1] - yl[iy]
             IN  [pc |-> "returned", exc |-> "", ix |-> ix, iy |-> iy,
                  ret |-> [z_comps |-> [i \in 0..(n - 1) |-> ZLine(f3d[i][2], ix, iy)],
                           x_grads |-> [i \in 0..(n - 1) |->
                                          GradLine(ZLine(f3d[i][2], ix, iy),
                                                   ZLine(f3d[i][2], ix + 1, iy), dx)],
                           y_grads |-> [i \in 0..(n - 1) |->
                                          GradLine(ZLine(f3d[i][2], ix, iy),
                                                   ZLine(f3d[i][2], ix, iy + 1), dy)],
                           x0 |-> xl[ix], y0 |-> yl[iy]]]

slice_1d(efn, hfn, xl, yl, zl, f3d, x0, y0) ==
    LET ix == argmin(AbsDiff(xl, x0))
        iy == argmin(AbsDiff(yl, y0))
        n == len(Concat(efn, hfn))
    IN  IF ix + 1 \notin DOMAIN xl
        THEN [pc |-> "raised", exc |-> "IndexError", ix |-> ix, iy |-> -1, ret |-> <<>>]
        ELSE IF iy + 1 \notin DOMAIN yl
        THEN [pc |-> "raised", exc |-> "IndexError", ix |-> ix, iy |-> iy, ret |-> <<>>]
        ELSE LET dx == xl[ix + 1] - xl[ix]
                 dy == yl[iy + 1] - yl[iy]
             IN  [pc |-> "returned", exc |-> "", ix |-> ix, iy |-> iy,
                  ret |-> [z_comps |-> [i \in 0..(n - 1) |-> ZLine(f3d[i][2], ix, iy)],
                           x_grads |-> [i \in 0..(n - 1) |->
                                          GradLine(ZLine(f3d[i][2], ix + 1, iy),
                                                   ZLine(f3d[i][2], ix, iy), dx)],
                           y_grads |-> [i \in 0..(n - 1) |->
                                          GradLine(ZLine(f3d[i][2], ix, iy + 1),
                                                   ZLine(f3d[i][2], ix, iy), dy)],
                           x0 |-> xl[ix], y0 |-> yl[iy]]]

(***************************************************************************)
(* The result reader DLL, as load_fields sees it.  For one project file    *)
(* solver[name] holds what the DLL's calls answer:                         *)
(*   dll       whether the DLL file exists                                 *)
(*   openRet   the return code of CST_OpenProject                          *)
(*   eItems, hItems   CST_GetItemNames: err, the code it fails with (0:    *)
(*             none); need, the buffer size the names take; names          *)
(*   Nxyz      CST_GetHexMeshInfo                                          *)
(*   xyzlines  CST_GetHexMesh                                              *)
(*   resSize   CST_Get3DHexResultSize of result i (-1: the call failed and *)
(*             left resSize as it was initialised)                         *)
(*   raw       CST_Get3DHexResult of result i: resSize floats              *)
(*   closeRet  the return code of CST_CloseProject                         *)
(* A result name is a record: len, its length; kind, what '[H,E]-Field'    *)
(* finds in it; ftoken, what the '(f=...)' pattern finds in it.            *)
(***************************************************************************)
ERROR_CODE_MEMORY == 8

InitBufSize == 10000

\* a file name: name[:-4] is its stem when its extension is ".cst"
CstFile(stem) == [stem |-> stem, ext |-> ".cst"]

NoFile == [stem |-> "", ext |-> ""]

NoLoad == [pc |-> "idle", proj |-> NoFile, freqScale |-> 0, i |-> 0, exc |-> "",
           Nxyz |-> <<0, 0, 0>>]

EmptyName == [len |-> 0, kind |-> <<>>, ftoken |-> <<>>]

\* discovered_str.value.split(b"\n"): an empty string splits into one empty name
SplitLines(names) == IF len(names) = 0 THEN List(<<EmptyName>>) ELSE names

\* _get_item_names: the buffer is doubled while the DLL answers ERROR_CODE_MEMORY
RECURSIVE get_item_names_loop(_, _)
get_item_names_loop(items, buf_size) ==
    LET ret == IF items.err # 0 THEN items.err
               ELSE IF buf_size < items.need THEN ERROR_CODE_MEMORY ELSE 0
    IN  IF ret = 0 THEN [exc |-> "", item_list |-> SplitLines(items.names)]
        ELSE IF ret = ERROR_CODE_MEMORY THEN get_item_names_loop(items, 2 * buf_size)
        ELSE [exc |-> "SystemExit", item_list |-> <<>>]

get_item_names(items) == get_item_names_loop(items, InitBufSize)

\* a[lo:hi] of a one-dimensional array: the bounds are clipped to the array
PySlice(a, lo, hi) ==
    LET l == IF lo > len(a) THEN len(a) ELSE lo
        h == IF hi > len(a) THEN len(a) ELSE hi
    IN  [q \in 0..(h - l - 1) |-> a[l + q]]

\* numpy.array(field3d[0::2]) + 1j*numpy.array(field3d[1::2]): the two halves
\* are added by numpy's broadcasting, which fails on unequal lengths unless
\* one of them is 1
Deinterleave(raw) ==
    LET L == len(raw)
        re == [q \in 0..(((L + 1) \div 2) - 1) |-> raw[2 * q]]
        im == [q \in 0..((L \div 2) - 1) |-> raw[2 * q + 1]]
    IN  IF len(re) = len(im)
        THEN [exc |-> "", val |-> [q \in DOMAIN re |-> <<re[q], im[q]>>]]
        ELSE IF len(im) = 1
        THEN [exc |-> "", val |-> [q \in DOMAIN re |-> <<re[q], im[0]>>]]
        ELSE IF len(im) = 0
        THEN [exc |-> "", val |-> <<>>]
        ELSE [exc |-> "ValueError", val |-> <<>>]

\* a.reshape((d0, d1, d2)), row-major; the caller has checked the size
reshape(a, d0, d1, d2) ==
    [i \in 0..(d0 - 1) |-> [j \in 0..(d1 - 1) |-> [k \in 0..(d2 - 1) |->
        a[(i * d1 + j) * d2 + k]]]]

\* numpy.swapaxes(a, 0, 2) of an array of shape (d0, d1, d2)
swapaxes02(a, d0, d1, d2) ==
    [i \in 0..(d2 - 1) |-> [j \in 0..(d1 - 1) |-> [k \in 0..(d0 - 1) |-> a[k][j][i]]]]

\* one component: (field3d[c*Np : (c+1)*Np]).reshape((nz, ny, nx)), axes 0 and 2 swapped
component_no_swap(field3d, c, Np, nx, ny, nz) ==
    LET part == PySlice(field3d, c * Np, (c + 1) * Np)
    IN  IF len(part) # nz * ny * nx THEN [exc |-> "ValueError", val |-> <<>>]
        ELSE [exc |-> "", val |-> reshape(part, nx, ny, nz)]

component(field3d, c, Np, nx, ny, nz) ==
    LET part == PySlice(field3d, c * Np, (c + 1) * Np)
    IN  IF len(part) # nz * ny * nx THEN [exc |-> "ValueError", val |-> <<>>]
        ELSE [exc |-> "", val |-> swapaxes02(reshape(part, nz, ny, nx), nz, ny, nx)]

\* lines 143-163, the body of the loop over the results, for result i
read_result(env, i, sTreePath, Np, nx, ny, nz, freqScale) ==
    IF env.resSize[i] < 0 THEN [exc |-> "ValueError"]
    ELSE LET d == Deinterleave(env.raw[i])
             xc == component(d.val, 0, Np, nx, ny, nz)
             yc == component(d.val, 1, Np, nx, ny, nz)
             zc == component(d.val, 2, Np, nx, ny, nz)
         IN  IF d.exc # "" THEN [exc |-> d.exc]
             ELSE IF xc.exc # "" THEN [exc |-> xc.exc]
             ELSE IF yc.exc # "" THEN [exc |-> yc.exc]
             ELSE IF zc.exc # "" THEN [exc |-> zc.exc]
             ELSE IF len(sTreePath.kind) = 0 \/ len(sTreePath.ftoken) = 0
             THEN [exc |-> "IndexError"]
             ELSE [exc |-> "",
                   field3d |-> [c \in 0..2 |->
                                  IF c = 0 THEN xc.val ELSE IF c = 1 THEN yc.val ELSE zc.val],
                   field_name |-> sTreePath.kind[0],
                   freq_name |-> sTreePath.ftoken[0],
                   freq |-> sTreePath.ftoken[0] * freqScale]

Raise(frame, e) == [frame EXCEPT !.pc = "raised", !.exc = e]

\* line 98: _load_CST_result_reader_dll exits when the DLL file is missing
LoadDll ==
    /\ lf.pc = "called"
    /\ lf' = IF solver[lf.proj].dll THEN [lf EXCEPT !.pc = "dll_loaded"]
             ELSE Raise(lf, "SystemExit")
    /\ UNCHANGED <<storeVars, sliceVars, solver, handles, batchVars, scVars>>

\* lines 100-104: CST_OpenProject
OpenProject ==
    /\ lf.pc = "dll_loaded"
    /\ IF solver[lf.proj].openRet # 0
       THEN lf' = Raise(lf, "SystemExit") /\ UNCHANGED handles
       ELSE lf' = [lf EXCEPT !.pc = "opened"] /\ handles' = handles \cup {lf.proj}
    /\ UNCHANGED <<storeVars, sliceVars, solver, batchVars, scVars>>

\* lines 106-107: the E-field names
ListEFields ==
    /\ lf.pc = "opened"
    /\ LET r == get_item_names(solver[lf.proj].eItems)
       IN  IF r.exc # ""
           THEN lf' = Raise(lf, r.exc) /\ UNCHANGED efield_names
           ELSE /\ lf' = [lf EXCEPT !.pc = "e_listed"]
                /\ efield_names' = IF r.item_list[0].len = 0 THEN <<>> ELSE r.item_list
    /\ UNCHANGED <<hfield_names, xlines, ylines, zlines, fields3d, field_names,
                   freq_names, freqs, sliceVars, solver, handles, batchVars, scVars>>

\* lines 112-113: the H-field names
ListHFields ==
    /\ lf.pc = "e_listed"
    /\ LET r == get_item_names(solver[lf.proj].hItems)
       IN  IF r.exc # ""
           THEN lf' = Raise(lf, r.exc) /\ UNCHANGED hfield_names
           ELSE /\ lf' = [lf EXCEPT !.pc = "h_listed"]
                /\ hfield_names' = IF r.item_list[0].len = 0 THEN <<>> ELSE r.item_list
    /\ UNCHANGED <<efield_names, xlines, ylines, zlines, fields3d, field_names,
                   freq_names, freqs, sliceVars, solver, handles, batchVars, scVars>>

\* lines 119-138: the mesh, and the result lists of n zeros
ReadMesh ==
    /\ lf.pc = "h_listed"
    /\ LET env == solver[lf.proj]
           nx == env.Nxyz[1]
           ny == env.Nxyz[2]
           nz == env.Nxyz[3]
           n == len(Concat(efield_names, hfield_names))
       IN  /\ xlines' = PySlice(env.xyzlines, 0, nx)
           /\ ylines' = PySlice(env.xyzlines, nx, nx + ny)
           /\ zlines' = PySlice(env.xyzlines, nx + ny, nx + ny + nz)
           /\ fields3d' = [i \in 0..(n - 1) |-> 0]
           /\ field_names' = [i \in 0..(n - 1) |-> 0]
           /\ freq_names' = [i \in 0..(n - 1) |-> 0]
           /\ freqs' = [i \in 0..(n - 1) |-> 0]
           /\ lf' = [lf EXCEPT !.pc = "reading", !.i = 0, !.Nxyz = env.Nxyz]
    /\ UNCHANGED <<efield_names, hfield_names, sliceVars, solver, handles, batchVars, scVars>>

\* lines 139-163: one pass of the loop over the results
ReadResult ==
    /\ lf.pc = "reading"
    /\ lf.i < len(Concat(efield_names, hfield_names))
    /\ LET r == read_result(solver[lf.proj], lf.i, Concat(efield_names, hfield_names)[lf.i],
                            lf.Nxyz[1] * lf.Nxyz[2] * lf.Nxyz[3],
                            len(xlines), len(ylines), len(zlines), lf.freqScale)
       IN  IF r.exc # ""
           THEN /\ lf' = Raise(lf, r.exc)
                /\ UNCHANGED <<fields3d, field_names, freq_names, freqs>>
           ELSE /\ lf' = [lf EXCEPT !.i = lf.i + 1]
                /\ fields3d' = [fields3d EXCEPT ![lf.i] = r.field3d]
                /\ field_names' = [field_names EXCEPT ![lf.i] = r.field_name]
                /\ freq_names' = [freq_names EXCEPT ![lf.i] = r.freq_name]
                /\ freqs' = [freqs EXCEPT ![lf.i] = r.freq]
    /\ UNCHANGED <<efield_names, hfield_names, xlines, ylines, zlines, sliceVars,
                   solver, handles, batchVars, scVars>>

\* lines 165-168: CST_CloseProject; a close that fails leaves the handle open
CloseProject ==
    /\ lf.pc = "reading"
    /\ lf.i = len(Concat(efield_names, hfield_names))
    /\ IF solver[lf.proj].closeRet # 0
       THEN lf' = Raise(lf, "SystemExit") /\ UNCHANGED handles
       ELSE lf' = [lf EXCEPT !.pc = "returned"] /\ handles' = handles \ {lf.proj}
    /\ UNCHANGED <<storeVars, sliceVars, solver, batchVars, scVars>>

(***************************************************************************)
(* The export drivers.  The destination is fs: base, whether hd5BasePath   *)
(* exists, and for each project stem its subdirectory: exists, and its     *)
(* entries.  An entry is a file name and, as a history of the run, the     *)
(* number of the project_to_*_files call that wrote it (0: it was there    *)
(* before the first call).                                                 *)
(***************************************************************************)
NoProject == [pc |-> "idle", name |-> NoFile, mode |-> "", force |-> FALSE,
              ret |-> -1, exc |-> "", pre |-> [exists |-> FALSE, entries |-> {}],
              serial |-> 0]

NoBatch == [pc |-> "idle", mode |-> "", force |-> FALSE, project_names |-> <<>>,
            k |-> 0, exc |-> "", runs |-> 0, calls |-> 0]

\* rotate_phase is not being called
NoPhase == [pc |-> "idle", i1 |-> -1, i2 |-> -1, phi |-> <<>>, out |-> <<>>]

PhaseIdle == A = <<>> /\ f = <<>> /\ f1 = 0 /\ f2 = 0 /\ rp = NoPhase

\* what kickerLong / kickerTrans returns when it raises: nothing
NoResult == [integrand |-> <<>>, beta |-> 0, arg |-> <<>>, V0 |-> <<>>, T_nonfinite |-> <<>>]

\* neither kickerLong nor kickerTrans has been called
NoKick == [pc |-> "idle", fn |-> "", beta |-> [isList |-> FALSE, vals |-> <<>>],
           z_borders |-> <<0, 0>>, supplied |-> FALSE, extra_values |-> FALSE,
           pre |-> <<>>, exc |-> "", ret |-> NoResult, calls |-> 0]

KickIdle == Earr = <<>> /\ zs = <<>> /\ fq = <<>> /\ kk = NoKick

BatchIdle ==
    /\ srcFiles = <<>>
    /\ fs = [base |-> FALSE, sub |-> <<>>]
    /\ bt = NoBatch
    /\ pj = NoProject

(***************************************************************************)
(* The projects load_fields is checked on.  A call ends at its first       *)
(* failing DLL call, so a project has at most one of them; the buffer of a *)
(* result holds 6*Np + delta floats, each float its own position in the    *)
(* buffer (and the result it belongs to), so that a sample shows where it  *)
(* came from.                                                              *)
(***************************************************************************)
Faults == {"none", "dll", "open", "eItems", "hItems", "resSize", "close", "noFreq"}

Deltas == {-6, -5, -3, -2, -1, 0, 1, 2, 6}

Needs == {InitBufSize, 2 * InitBufSize + 1}

ResultName(kind, fault) ==
    [len |-> 30, kind |-> List(<<kind>>),
     ftoken |-> IF fault = "noFreq" THEN <<>> ELSE List(<<8>>)]

Project(fault, need, ne, nh, nx, ny, nz, delta) ==
    [dll |-> fault # "dll",
     openRet |-> IF fault = "open" THEN 1 ELSE 0,
     eItems |-> [err |-> IF fault = "eItems" THEN 5 ELSE 0, need |-> need,
                 names |-> [i \in 0..(ne - 1) |-> ResultName("E-Field", fault)]],
     hItems |-> [err |-> IF fault = "hItems" THEN 5 ELSE 0, need |-> InitBufSize,
                 names |-> [i \in 0..(nh - 1) |-> ResultName("H-Field", fault)]],
     Nxyz |-> <<nx, ny, nz>>,
     xyzlines |-> [q \in 0..(nx + ny + nz - 1) |-> q],
     resSize |-> [i \in 0..(ne + nh - 1) |->
                    IF fault = "resSize" THEN -1 ELSE 6 * nx * ny * nz + delta],
     raw |-> [i \in 0..(ne + nh - 1) |->
                [q \in 0..(6 * nx * ny * nz + delta - 1) |-> 1000 * i + q]],
     closeRet |-> IF fault = "close" THEN 1 ELSE 0]

Projects ==
    {Project(fault, need, ne, nh, nx, ny, nz, delta) :
        fault \in Faults, need \in Needs, ne \in 0..1, nh \in 0..1,
        nx \in 1..MaxDim, ny \in 1..MaxDim, nz \in 1..MaxDim, delta \in Deltas}

FreqScales == {10}

StoreUnset ==
    /\ efield_names = <<>> /\ hfield_names = <<>>
    /\ xlines = <<>> /\ ylines = <<>> /\ zlines = <<>>
    /\ fields3d = <<>> /\ field_names = <<>> /\ freq_names = <<>> /\ freqs = <<>>

InitLoad ==
    /\ StoreUnset
    /\ x0req = 0 /\ y0req = 0 /\ sl = NoSlice
    /\ \E p \in Projects : solver = [name \in {CstFile("a")} |-> p]
    /\ handles = {}
    /\ \E scale \in FreqScales :
        lf = [NoLoad EXCEPT !.pc = "called", !.proj = CstFile("a"), !.freqScale = scale]
    /\ BatchIdle
    /\ PhaseIdle
    /\ KickIdle

NextLoad ==
    \/ LoadDll
    \/ OpenProject
    \/ ListEFields
    \/ ListHFields
    \/ ReadMesh
    \/ ReadResult
    \/ CloseProject

SpecLoad == InitLoad /\ [][NextLoad]_vars

(***************************************************************************)
(* The inputs slice_1d is checked on: meshes of strictly increasing lines, *)
(* fields whose z component is a*x + b*y + z, with one node raised by j,   *)
(* and requested positions on and between the mesh lines.                  *)
(***************************************************************************)
IncArrays ==
    {a \in UNION {[0..(n - 1) -> 0..MaxCoord] : n \in 2..MaxN} :
        \A i \in 0..(len(a) - 2) : a[i] < a[i + 1]}

Slopes == {0, 2}

NoNode == <<-1, -1, -1>>

SliceField(xl, yl, zl, a, b, bn) ==
    [c \in 0..2 |-> [i \in DOMAIN xl |-> [j \in DOMAIN yl |-> [k \in DOMAIN zl |->
        IF c = 2
        THEN <<a * xl[i] + b * yl[j] + zl[k], IF <<i, j, k>> = bn THEN 1 ELSE 0>>
        ELSE <<0, 0>>]]]]

ENames(ne) == [i \in 0..(ne - 1) |-> "E-Field (f=1)"]

HNames(nh) == [i \in 0..(nh - 1) |-> "H-Field (f=1)"]

InitSlice ==
    /\ xlines \in IncArrays
    /\ ylines \in IncArrays
    /\ zlines = [k \in 0..(NZ - 1) |-> k]
    /\ \E ne \in 0..1, nh \in 0..1 :
        /\ efield_names = ENames(ne)
        /\ hfield_names = HNames(nh)
        /\ \E a \in Slopes, b \in Slopes,
              bn \in {NoNode} \cup ((DOMAIN xlines) \X (DOMAIN ylines) \X (DOMAIN zlines)) :
            /\ ne + nh = 0 => (a = 0 /\ b = 0 /\ bn = NoNode)
            /\ fields3d = [i \in 0..(ne + nh - 1) |->
                             SliceField(xlines, ylines, zlines, a + i, b - i, bn)]
    /\ x0req \in 0..MaxCoord
    /\ y0req \in 0..MaxCoord
    /\ sl = [NoSlice EXCEPT !.pc = "call"]
    /\ field_names = <<>> /\ freq_names = <<>> /\ freqs = <<>>
    /\ solver = <<>> /\ handles = {} /\ lf = NoLoad
    /\ BatchIdle
    /\ PhaseIdle
    /\ KickIdle

\* a call of slice_1d
Slice ==
    /\ sl.pc = "call"
    /\ sl' = slice_1d(efield_names, hfield_names, xlines, ylines, zlines, fields3d,
                      x0req, y0req)
    /\ UNCHANGED <<storeVars, x0req, y0req, loadVars, batchVars, scVars>>

NextSlice == Slice

SpecSlice == InitSlice /\ [][NextSlice]_vars

\* the files of a listing that end with ".cst", in the listing's order
RECURSIVE CstOnly(_, _)
CstOnly(files, i) ==
    IF i >= len(files) THEN <<>>
    ELSE LET rest == CstOnly(files, i + 1)
         IN  IF files[i].ext = ".cst"
             THEN [q \in 0..len(rest) |-> IF q = 0 THEN files[i] ELSE rest[q - 1]]
             ELSE rest

\* lines 250-258, 297-305: the start of a batch
StartBatch ==
    /\ bt.pc \in {"idle", "finished", "aborted"}
    /\ bt.runs < MaxRuns
    /\ \E mode \in {"1d", "3d"}, force \in BOOLEAN :
        bt' = [bt EXCEPT !.pc = "loop", !.mode = mode, !.force = force,
                         !.project_names = CstOnly(srcFiles, 0), !.k = 0, !.exc = "",
                         !.runs = bt.runs + 1]
    /\ fs' = [fs EXCEPT !.base = TRUE]
    /\ pj' = NoProject
    /\ UNCHANGED <<storeVars, sliceVars, loadVars, srcFiles, scVars>>

\* lines 266, 313: the batch calls project_to_*_files for the next project
CallProject ==
    /\ bt.pc = "loop"
    /\ pj.pc = "idle"
    /\ bt.k < len(bt.project_names)
    /\ LET name == bt.project_names[bt.k]
       IN  pj' = [NoProject EXCEPT !.pc = "called", !.name = name, !.mode = bt.mode,
                                   !.force = bt.force, !.serial = bt.calls + 1,
                                   !.pre = IF fs.base THEN fs.sub[name.stem]
                                           ELSE [exists |-> FALSE, entries |-> {}]]
    /\ bt' = [bt EXCEPT !.calls = bt.calls + 1]
    /\ lf' = NoLoad
    /\ sl' = NoSlice
    /\ efield_names' = <<>> /\ hfield_names' = <<>>
    /\ xlines' = <<>> /\ ylines' = <<>> /\ zlines' = <<>>
    /\ fields3d' = <<>> /\ field_names' = <<>> /\ freq_names' = <<>> /\ freqs' = <<>>
    /\ UNCHANGED <<x0req, y0req, solver, handles, srcFiles, fs, scVars>>

EmptyDir == [exists |-> TRUE, entries |-> {}]

\* lines 228-241, 274-287 without the guard on force_overwrite
prepare_dir_always_clear(dest, stem, force) ==
    LET d == IF dest.base THEN dest.sub[stem] ELSE [exists |-> FALSE, entries |-> {}]
    IN  [skip |-> FALSE, fs |-> [base |-> TRUE, sub |-> [dest.sub EXCEPT ![stem] = EmptyDir]]]

\* lines 228-241, 274-287: the destination subdirectory is made, kept or cleared
prepare_dir(dest, stem, force) ==
    LET d == IF dest.base THEN dest.sub[stem] ELSE [exists |-> FALSE, entries |-> {}]
        made == [base |-> TRUE, sub |-> [dest.sub EXCEPT ![stem] = EmptyDir]]
    IN  IF ~d.exists THEN [skip |-> FALSE, fs |-> made]
        ELSE IF d.entries # {}
        THEN IF force THEN [skip |-> FALSE, fs |-> made]
             ELSE [skip |-> TRUE, fs |-> dest]
        ELSE [skip |-> FALSE, fs |-> [dest EXCEPT !.base = TRUE]]

\* lines 228-244, 274-290: up to the call of load_fields, or the return of 1
PrepareDir ==
    /\ pj.pc = "called"
    /\ LET r == prepare_dir(fs, pj.name.stem, pj.force)
       IN  /\ fs' = r.fs
           /\ IF r.skip
              THEN /\ pj' = [pj EXCEPT !.pc = "returned", !.ret = 1]
                   /\ UNCHANGED lf
              ELSE /\ pj' = [pj EXCEPT !.pc = "loading"]
                   /\ lf' = [NoLoad EXCEPT !.pc = "called", !.proj = pj.name,
                                           !.freqScale = CHOOSE scale \in FreqScales : TRUE]
    /\ UNCHANGED <<storeVars, sliceVars, solver, handles, srcFiles, bt, scVars>>

\* an exception of load_fields leaves project_to_*_files too
LoadRaised ==
    /\ pj.pc = "loading"
    /\ lf.pc = "raised"
    /\ pj' = [pj EXCEPT !.pc = "raised", !.exc = lf.exc]
    /\ UNCHANGED <<storeVars, sliceVars, loadVars, srcFiles, fs, bt, scVars>>

\* line 291: project_to_1d_files calls slice_1d on what load_fields returned
CallSlice ==
    /\ pj.pc = "loading"
    /\ pj.mode = "1d"
    /\ lf.pc = "returned"
    /\ pj' = [pj EXCEPT !.pc = "slicing"]
    /\ sl' = [NoSlice EXCEPT !.pc = "call"]
    /\ UNCHANGED <<storeVars, x0req, y0req, loadVars, srcFiles, fs, bt, scVars>>

\* an exception of slice_1d leaves project_to_1d_files too
SliceRaised ==
    /\ pj.pc = "slicing"
    /\ sl.pc = "raised"
    /\ pj' = [pj EXCEPT !.pc = "raised", !.exc = sl.exc]
    /\ UNCHANGED <<storeVars, sliceVars, loadVars, srcFiles, fs, bt, scVars>>

\* h5py.File(name, 'w'): the file is created, or replaced when it exists
WriteFile(entries, name, by) ==
    {e \in entries : e.name # name} \cup {[name |-> name, by |-> by]}

\* save_hd5_3d: one file per result, named by its field and frequency names
RECURSIVE save_hd5_3d(_, _, _)
save_hd5_3d(entries, i, by) ==
    IF i >= len(Concat(efield_names, hfield_names)) THEN entries
    ELSE save_hd5_3d(WriteFile(entries, <<field_names[i], freq_names[i]>>, by), i + 1, by)

\* save_hd5_1d: one file per result, named by its field and frequency names
\* and the x0, y0 of the slice
RECURSIVE save_hd5_1d(_, _, _, _, _)
save_hd5_1d(entries, i, x0, y0, by) ==
    IF i >= len(Concat(efield_names, hfield_names)) THEN entries
    ELSE save_hd5_1d(WriteFile(entries, <<field_names[i], freq_names[i], x0, y0>>, by),
                     i + 1, x0, y0, by)

\* lines 245-246: project_to_3d_files saves and returns 0
Save3d ==
    /\ pj.pc = "loading"
    /\ pj.mode = "3d"
    /\ lf.pc = "returned"
    /\ fs' = [fs EXCEPT !.sub[pj.name.stem].entries = save_hd5_3d(@, 0, pj.serial)]
    /\ pj' = [pj EXCEPT !.pc = "returned", !.ret = 0]
    /\ UNCHANGED <<storeVars, sliceVars, loadVars, srcFiles, bt, scVars>>

\* lines 292-293: project_to_1d_files saves and returns 0
Save1d ==
    /\ pj.pc = "slicing"
    /\ sl.pc = "returned"
    /\ fs' = [fs EXCEPT !.sub[pj.name.stem].entries =
                            save_hd5_1d(@, 0, sl.ret.x0, sl.ret.y0, pj.serial)]
    /\ pj' = [pj EXCEPT !.pc = "returned", !.ret = 0]
    /\ UNCHANGED <<storeVars, sliceVars, loadVars, srcFiles, bt, scVars>>

\* lines 267-270, 314-317: the call returned, the loop goes on
ProjectReturned ==
    /\ bt.pc = "loop"
    /\ pj.pc = "returned"
    /\ bt' = [bt EXCEPT !.k = bt.k + 1]
    /\ pj' = [pj EXCEPT !.pc = "idle"]
    /\ UNCHANGED <<storeVars, sliceVars, loadVars, srcFiles, fs, scVars>>

\* the loop has no handler: an exception of the call leaves the batch
ProjectRaised ==
    /\ bt.pc = "loop"
    /\ pj.pc = "raised"
    /\ bt' = [bt EXCEPT !.pc = "aborted", !.exc = pj.exc]
    /\ UNCHANGED <<storeVars, sliceVars, loadVars, srcFiles, fs, pj, scVars>>

\* the loop is over
BatchDone ==
    /\ bt.pc = "loop"
    /\ pj.pc = "idle"
    /\ bt.k = len(bt.project_names)
    /\ bt' = [bt EXCEPT !.pc = "finished"]
    /\ UNCHANGED <<storeVars, sliceVars, loadVars, srcFiles, fs, pj, scVars>>

(***************************************************************************)
(* The runs the drivers are checked on: a project directory of two project *)
(* files and another file, destination subdirectories that are missing,    *)
(* empty or hold an earlier entry, and batches run one after the other.    *)
(***************************************************************************)
BatchProjects ==
    {Project(fault, InitBufSize, 1, 1, 2, 2, 1, 0) : fault \in {"none", "open", "hItems", "close"}}

Listings ==
    {List(<<CstFile("a"), [stem |-> "notes", ext |-> ".txt"], CstFile("b")>>),
     List(<<CstFile("b"), CstFile("a")>>)}

OldEntry == [name |-> <<"E-Field", 8>>, by |-> 0]

DirStates ==
    {[exists |-> FALSE, entries |-> {}], EmptyDir, [exists |-> TRUE, entries |-> {OldEntry}]}

InitBatch ==
    /\ StoreUnset
    /\ x0req \in 0..1 /\ y0req = 0 /\ sl = NoSlice
    /\ solver \in [{CstFile("a"), CstFile("b")} -> BatchProjects]
    /\ handles = {}
    /\ lf = NoLoad
    /\ srcFiles \in Listings
    /\ \E base \in BOOLEAN :
        /\ fs \in [base : {base}, sub : [{"a", "b"} -> DirStates]]
        /\ ~base => \A stem \in {"a", "b"} : ~fs.sub[stem].exists
    /\ bt = NoBatch
    /\ pj = NoProject
    /\ PhaseIdle
    /\ KickIdle

NextBatch ==
    \/ StartBatch
    \/ CallProject
    \/ PrepareDir
    \/ LoadDll
    \/ OpenProject
    \/ ListEFields
    \/ ListHFields
    \/ ReadMesh
    \/ ReadResult
    \/ CloseProject
    \/ LoadRaised
    \/ CallSlice
    \/ Slice
    \/ SliceRaised
    \/ Save3d
    \/ Save1d
    \/ ProjectReturned
    \/ ProjectRaised
    \/ BatchDone

SpecBatch == InitBatch /\ [][NextBatch]_vars

(***************************************************************************)
(* rotate_phase.  A complex number is kept in polar form: mag, and ph, its *)
(* phase as an exact fraction of the unit half turn / HalfTurn, reduced    *)
(* into [0, Turn); nan marks the NaN that numpy's division by zero leaves  *)
(* (sc.py turns the floating point warnings off, line 14).                 *)
(***************************************************************************)
Turn == 2 * HalfTurn

Polar(mag, ph) == [nan |-> FALSE, mag |-> mag, ph |-> IF mag = 0 THEN <<0, 1>> ELSE ph]

NaN == [nan |-> TRUE, mag |-> 0, ph |-> <<0, 1>>]

\* fractions: the difference, and the value modulo a whole number
RSub(a, b) == Quot(a[1] * b[2] - b[1] * a[2], a[2] * b[2])

RMod(a, m) == Quot(a[1] % (m * a[2]), a[2])

\* numpy.angle: the phase in (-pi, pi], 0 for the number 0, NaN for NaN
angle(z) ==
    IF z.nan THEN <<>>
    ELSE LET r == RMod(z.ph, Turn)
         IN  IF r[1] > HalfTurn * r[2] THEN RSub(r, <<Turn, 1>>) ELSE r

\* numpy.unwrap of whole phases: a jump of a half turn or more between
\* neighbours is taken out by adding a multiple of the turn to what follows
RECURSIVE unwrap_from(_, _, _)
unwrap_from(p, k, shift) ==
    IF k >= len(p) THEN <<>>
    ELSE LET dd == p[k] - p[k - 1]
             m == ((dd + HalfTurn) % Turn) - HalfTurn
             ddmod == IF m = -HalfTurn /\ dd > 0 THEN HalfTurn ELSE m
             ph_correct == IF abs(dd) < HalfTurn THEN 0 ELSE ddmod - dd
             rest == unwrap_from(p, k + 1, shift + ph_correct)
         IN  [q \in 0..len(rest) |-> IF q = 0 THEN p[k] + shift + ph_correct ELSE rest[q - 1]]

unwrap(p) ==
    IF len(p) = 0 THEN p
    ELSE LET rest == unwrap_from(p, 1, 0)
         IN  [q \in 0..len(rest) |-> IF q = 0 THEN p[0] ELSE rest[q - 1]]

\* z * exp(-1j * t), t a fraction or NaN (the empty tuple)
Rotate(z, t) ==
    IF z.nan \/ t = <<>> THEN NaN
    ELSE Polar(z.mag, RMod(RSub(z.ph, t), Turn))

\* f[k] / (f2 - f1) * (phi2 - phi1): a division by zero gives inf or NaN, and
\* inf times the phase difference, which is 0 when f1 = f2, gives NaN
ramp(fk, d, phi1, phi2) ==
    IF d = 0 THEN <<>> ELSE Quot(fk * (phi2 - phi1), d)

rotate_phase(a, freq, fr1, fr2) ==
    LET i1 == argmin(AbsDiff(freq, fr1))
        i2 == argmin(AbsDiff(freq, fr2))
        nz == len(a[0])
        ang == [k \in DOMAIN a |-> angle(a[k][nz - 1])]
        phi == unwrap([k \in DOMAIN a |-> ang[k][1]])
        B == [k \in DOMAIN a |-> ramp(freq[k], fr2 - fr1, phi[i1], phi[i2])]
        out == [k \in DOMAIN a |-> [j \in DOMAIN a[k] |-> Rotate(a[k][j], B[k])]]
        phi0 == angle(out[i1][nz - 1])
    IN  [pc |-> "returned", i1 |-> i1, i2 |-> i2, phi |-> phi,
         out |-> [k \in DOMAIN a |-> [j \in DOMAIN a[k] |-> Rotate(out[k][j], phi0)]]]

\* a call of rotate_phase
RotatePhase ==
    /\ rp.pc = "call"
    /\ rp' = rotate_phase(A, f, f1, f2)
    /\ UNCHANGED <<storeVars, sliceVars, loadVars, batchVars, A, f, f1, f2, kickVars>>

(***************************************************************************)
(* The arrays rotate_phase is checked on: NF rows of distinct frequencies  *)
(* in any order, two positions, the last column of any whole phases or 0,  *)
(* the first column a quarter of the last in size and one unit behind.     *)
(***************************************************************************)
FreqArrays ==
    {a \in [0..(NF - 1) -> 0..MaxFreq] : \A i, j \in 0..(NF - 1) : i # j => a[i] # a[j]}

LastColumns == [0..(NF - 1) -> {<<0, 0>>} \cup ({4} \X (0..(Turn - 1)))]

InitPhase ==
    /\ StoreUnset
    /\ x0req = 0 /\ y0req = 0 /\ sl = NoSlice
    /\ solver = <<>> /\ handles = {} /\ lf = NoLoad
    /\ BatchIdle
    /\ KickIdle
    /\ f \in FreqArrays
    /\ f1 \in 0..MaxFreq
    /\ f2 \in 0..MaxFreq
    /\ \E c \in LastColumns :
        A = [k \in 0..(NF - 1) |-> [j \in 0..1 |->
                IF j = 1 THEN Polar(c[k][1], <<c[k][2], 1>>)
                ELSE Polar(c[k][1] \div 4, <<(c[k][2] + 1) % Turn, 1>>)]]
    /\ rp = [NoPhase EXCEPT !.pc = "call"]

NextPhase == RotatePhase

SpecPhase == InitPhase /\ [][NextPhase]_vars

(***************************************************************************)
(* kickerLong and kickerTrans.  Positions are whole numbers of 1 / ZScale  *)
(* metres, field samples and frequencies whole numbers, integrals exact    *)
(* fractions.  beta is [isList, vals]: a number b is [FALSE, <<b>>], a     *)
(* Python list is [TRUE, its elements].  z_borders is the pair <<lo, hi>>. *)
(* Pin_eff and Zc only scale the results and are left out.                 *)
(***************************************************************************)
\* 1e-6 is 1 / BorderEpsInv
BorderEpsInv == 1000000

\* Ez.shape
shape(E) == <<len(E), len(E[0])>>

\* z_borders as the function uses it: the whole of z when the sum of the
\* squares of the limits, in square metres, is below 1e-6
borders(zl, z_borders) ==
    IF (z_borders[1] * z_borders[1] + z_borders[2] * z_borders[2]) * BorderEpsInv
          < ZScale * ZScale
    THEN <<zl[0], zl[len(zl) - 1]>>
    ELSE z_borders

\* Ez[:, z<lo] = 0 and Ez[:, z>hi] = 0
gate(E, zl, b) ==
    [i \in DOMAIN E |-> [j \in DOMAIN E[i] |->
        IF zl[j] < b[1] \/ zl[j] > b[2] THEN 0 ELSE E[i][j]]]

\* twice the trapezoidal sum of a row up to position j
RECURSIVE TwiceTrapz(_, _, _)
TwiceTrapz(row, x, j) ==
    IF j = 0 THEN 0
    ELSE TwiceTrapz(row, x, j - 1) + (x[j] - x[j - 1]) * (row[j] + row[j - 1])

\* scipy.integrate.cumtrapz(y, x=x, initial=0), along the last axis
cumtrapz(y, x) ==
    [i \in DOMAIN y |-> [j \in DOMAIN y[i] |-> Quot(TwiceTrapz(y[i], x, j), 2)]]

\* the shape check of the mutated order: the beta check first
check_inputs_beta_first(E, nf, nz, beta) ==
    IF beta.isList /\ Len(beta.vals) # 1 THEN "ValueError: beta"
    ELSE IF shape(E) # <<nf, nz>> THEN "ValueError: shape"
    ELSE ""

\* the two checks before the array is touched: the exception raised, or ""
check_inputs(E, nf, nz, beta) ==
    IF shape(E) # <<nf, nz>> THEN "ValueError: shape"
    ELSE IF beta.isList /\ Len(beta.vals) # 1 THEN "ValueError: beta"
    ELSE ""

\* beta = beta[0] for a list of one element, beta itself for a number
single_beta(beta) == beta.vals[1]

\* a call that raises: the caller's array as it is then, and no result
Raised(E, exc) == [pc |-> "raised", exc |-> exc, arr |-> E, ret |-> NoResult]

\* the part the two functions share, from nf = len(f) to the integrals:
\* arg is k_*z_ in units of 2*pi / (clight * ZScale); V0 and T = V/V0 are
\* kickerLong's, T being NaN or Inf exactly where V0 is 0
kicker(E, zl, fl, beta, z_borders, long) ==
    LET nf  == len(fl)
        nz  == len(zl)
        b   == borders(zl, z_borders)
        exc == check_inputs(E, nf, nz, beta)
        bt1 == single_beta(beta)
        G   == gate(E, zl, b)
        V0  == cumtrapz(G, zl)
    IN  IF exc # "" THEN Raised(E, exc)
        ELSE [pc |-> "returned", exc |-> "", arr |-> G,
              ret |-> [integrand |-> G,
                       beta |-> bt1,
                       arg |-> [i \in 0..(nf - 1) |-> [j \in 0..(nz - 1) |->
                                   Quot(fl[i] * zl[j], bt1)]],
                       V0 |-> IF long THEN V0 ELSE <<>>,
                       T_nonfinite |-> IF long
                                       THEN [i \in 0..(nf - 1) |-> [j \in 0..(nz - 1) |->
                                                V0[i][j][1] = 0]]
                                       ELSE <<>>]]

kickerLong(E, zl, fl, beta, z_borders) == kicker(E, zl, fl, beta, z_borders, TRUE)

\* kickerTrans asking about extra_values last, after the checks and the gate
kickerTrans_extra_last(dEz_du, zl, fl, beta, z_borders, extra_values) ==
    LET r == kicker(dEz_du, zl, fl, beta, z_borders, FALSE)
    IN  IF r.pc = "raised" \/ ~extra_values THEN r
        ELSE Raised(r.arr, "NotImplementedError")

kickerTrans(dEz_du, zl, fl, beta, z_borders, extra_values) ==
    IF extra_values THEN Raised(dEz_du, "NotImplementedError")
    ELSE kicker(dEz_du, zl, fl, beta, z_borders, FALSE)

\* the frame of a call and of its outcome
KickFrame(fn, beta, z_borders, supplied, extra_values, r) ==
    [pc |-> r.pc, fn |-> fn, beta |-> beta, z_borders |-> z_borders,
     supplied |-> supplied, extra_values |-> extra_values,
     pre |-> Earr, exc |-> r.exc, ret |-> r.ret, calls |-> kk.calls + 1]

\* the values of beta a call is made with
Betas ==
    {[isList |-> FALSE, vals |-> <<b>>] : b \in 1..2}
        \cup {[isList |-> TRUE, vals |-> v] : v \in {<<>>, <<2>>, <<1, 2>>}}

\* the z_borders a call is made with; the default of the parameter is [0, 0]
BorderArgs == (-1..MaxZ) \X (-1..MaxZ)

\* a call of kickerLong on the caller's array
KickerLong ==
    /\ kk.calls < MaxCalls
    /\ \E beta \in Betas, supplied \in BOOLEAN, zb \in BorderArgs :
        /\ supplied \/ zb = <<0, 0>>
        /\ LET r == kickerLong(Earr, zs, fq, beta, zb)
           IN  /\ Earr' = r.arr
               /\ kk' = KickFrame("kickerLong", beta, zb, supplied, FALSE, r)
    /\ UNCHANGED <<storeVars, sliceVars, loadVars, batchVars, phaseVars, zs, fq>>

\* a call of kickerTrans on the caller's array
KickerTrans ==
    /\ kk.calls < MaxCalls
    /\ \E beta \in Betas, supplied \in BOOLEAN, zb \in BorderArgs,
          extra_values \in BOOLEAN :
        /\ supplied \/ zb = <<0, 0>>
        /\ LET r == kickerTrans(Earr, zs, fq, beta, zb, extra_values)
           IN  /\ Earr' = r.arr
               /\ kk' = KickFrame("kickerTrans", beta, zb, supplied, extra_values, r)
    /\ UNCHANGED <<storeVars, sliceVars, loadVars, batchVars, phaseVars, zs, fq>>

\* the arrays the calls are made on: ascending positions, frequencies
\* 1, 2, ..., and a field array of any shape without a zero sample
ZArrays ==
    UNION {{a \in [0..(n - 1) -> -1..MaxZ] : \A j \in 1..(n - 1) : a[j - 1] < a[j]} :
           n \in 1..MaxNz}

InitKick ==
    /\ StoreUnset
    /\ x0req = 0 /\ y0req = 0 /\ sl = NoSlice
    /\ solver = <<>> /\ handles = {} /\ lf = NoLoad
    /\ BatchIdle
    /\ PhaseIdle
    /\ zs \in ZArrays
    /\ \E nf \in 1..MaxNf : fq = [i \in 0..(nf - 1) |-> i + 1]
    /\ \E r \in 1..MaxNf, c \in 1..MaxNz :
        Earr = [i \in 0..(r - 1) |-> [j \in 0..(c - 1) |-> 1 + i + j]]
    /\ kk = NoKick

NextKick == KickerLong \/ KickerTrans

SpecKick == InitKick /\ [][NextKick]_vars

(***************************************************************************)
(* Claims about slice_1d.                                                  *)
(***************************************************************************)
\* i is the lowest index whose line is nearest to v
LowestNearest(lines, v, i) ==
    /\ i \in DOMAIN lines
    /\ \A j \in DOMAIN lines :
        /\ abs(lines[j] - v) >= abs(lines[i] - v)
        /\ j < i => abs(lines[j] - v) > abs(lines[i] - v)

\* C1: slice_1d locates ix and iy as the lowest index of a nearest mesh line
\* (a request midway between two lines takes the lower one), and the x0, y0
\* it returns are xlines[ix] and ylines[iy], not the requested values.
C1_SnapsToLowestNearest ==
    /\ sl.pc # "call" => LowestNearest(xlines, x0req, sl.ix)
    /\ (sl.pc # "call" /\ sl.iy # -1) => LowestNearest(ylines, y0req, sl.iy)
    /\ sl.pc = "returned" =>
        /\ sl.iy # -1
        /\ sl.ret.x0 = xlines[sl.ix]
        /\ sl.ret.y0 = ylines[sl.iy]

\* a returned slice whose x0 was requested midway between two mesh lines
C1_Witness ==
    /\ sl.pc = "returned"
    /\ xlines[sl.ix + 1] - x0req = x0req - xlines[sl.ix]
    /\ sl.ret.x0 # x0req
    /\ sl.ret.y0 # y0req

\* C2: when the nearest mesh line along x or along y is the last one of its
\* axis, slice_1d raises IndexError and returns nothing.
C2_LastIndexRaises ==
    (/\ sl.pc # "call"
     /\ \/ LowestNearest(xlines, x0req, len(xlines) - 1)
        \/ LowestNearest(ylines, y0req, len(ylines) - 1))
    => (sl.pc = "raised" /\ sl.exc = "IndexError" /\ sl.ret = <<>>)

\* a call that found x inside the mesh and y on the last line
C2_Witness ==
    /\ sl.pc = "raised"
    /\ sl.ix + 1 \in DOMAIN xlines
    /\ sl.iy = len(ylines) - 1
    /\ len(Concat(efield_names, hfield_names)) > 0

\* q is the reduced fraction n / d
IsQuot(q, n, d) == q[2] > 0 /\ q[1] * d = n * q[2] /\ Gcd(abs(q[1]), q[2]) = 1

\* the complex g is (hi - lo) / d
IsCQuot(g, hi, lo, d) == IsQuot(g[1], hi[1] - lo[1], d) /\ IsQuot(g[2], hi[2] - lo[2], d)

\* Ez = Ez[0,0,:] + a*(x - x[0]) + b*(y - y[0]) at every node
LinearXY(Ez, a, b) ==
    \A i \in DOMAIN xlines, j \in DOMAIN ylines, k \in DOMAIN zlines :
        Ez[i][j][k] = <<Ez[0][0][k][1] + a * (xlines[i] - xlines[0])
                                       + b * (ylines[j] - ylines[0]),
                        Ez[0][0][k][2]>>

SlopeRange == -2..3

\* C3: z_comp, x_grad and y_grad are the z component at (ix, iy) and its
\* forward differences over the mesh steps; a z component linear in x and y
\* gives its slopes, one without transverse dependence gives zero.
C3_ForwardDifference ==
    sl.pc = "returned" =>
        \A i \in DOMAIN fields3d, k \in DOMAIN zlines :
            LET Ez == fields3d[i][2]
                r == sl.ret
            IN  /\ DOMAIN r.z_comps = DOMAIN fields3d
                /\ r.z_comps[i][k] = Ez[sl.ix][sl.iy][k]
                /\ IsCQuot(r.x_grads[i][k], Ez[sl.ix + 1][sl.iy][k], Ez[sl.ix][sl.iy][k],
                           xlines[sl.ix + 1] - xlines[sl.ix])
                /\ IsCQuot(r.y_grads[i][k], Ez[sl.ix][sl.iy + 1][k], Ez[sl.ix][sl.iy][k],
                           ylines[sl.iy + 1] - ylines[sl.iy])
                /\ \A a \in SlopeRange, b \in SlopeRange :
                    LinearXY(Ez, a, b) =>
                        /\ r.x_grads[i][k] = <<<<a, 1>>, <<0, 1>>>>
                        /\ r.y_grads[i][k] = <<<<b, 1>>, <<0, 1>>>>

\* a returned slice of two fields at ix = 1: the first has slope 2 along x,
\* and a raised node gives it a gradient along y that is not a whole number
C3_Witness ==
    /\ sl.pc = "returned"
    /\ len(fields3d) = 2
    /\ sl.ix = 1
    /\ sl.ret.x_grads[0][0][1] = <<2, 1>>
    /\ \E k \in DOMAIN zlines : sl.ret.y_grads[0][k][2][2] = 2

(***************************************************************************)
(* Claims about load_fields.                                               *)
(***************************************************************************)
\* the complex sample at position q of the de-interleaved buffer of result i
SampleAt(i, q) == <<solver[lf.proj].raw[i][2 * q], solver[lf.proj].raw[i][2 * q + 1]>>

\* C4: every stored component has shape (Nx, Ny, Nz), and its value at
\* (ix, iy, iz) is the sample at c*Nx*Ny*Nz + iz*Ny*Nx + iy*Nx + ix of the
\* de-interleaved buffer.
C4_ReorderedFromZMajor ==
    \A i \in 0..(lf.i - 1), c \in 0..2 :
        LET Nx == solver[lf.proj].Nxyz[1]
            Ny == solver[lf.proj].Nxyz[2]
            Nz == solver[lf.proj].Nxyz[3]
        IN  /\ DOMAIN fields3d[i][c] = 0..(Nx - 1)
            /\ \A ix \in 0..(Nx - 1) :
                /\ DOMAIN fields3d[i][c][ix] = 0..(Ny - 1)
                /\ \A iy \in 0..(Ny - 1) :
                    /\ DOMAIN fields3d[i][c][ix][iy] = 0..(Nz - 1)
                    /\ \A iz \in 0..(Nz - 1) :
                        fields3d[i][c][ix][iy][iz] =
                            SampleAt(i, c * Nx * Ny * Nz + iz * Ny * Nx + iy * Nx + ix)

\* load_fields has returned two results on a mesh of 2 x 1 x 2 lines
C4_Witness ==
    /\ lf.pc = "returned"
    /\ lf.i = 2
    /\ lf.Nxyz = <<2, 1, 2>>
    /\ fields3d[1][2][1][0][0] = <<1018, 1019>>

\* C5: a result is stored only when its buffer holds exactly Nx*Ny*Nz complex
\* samples per component; any other length fails.
C5_WrongLengthFails ==
    \A i \in 0..(lf.i - 1) :
        solver[lf.proj].resSize[i] =
            2 * 3 * solver[lf.proj].Nxyz[1] * solver[lf.proj].Nxyz[2] * solver[lf.proj].Nxyz[3]

\* C8: once load_fields is left, by return or by exception, the project
\* handle it opened is closed.
C8_HandleReleased ==
    lf.pc \in {"returned", "raised"} => lf.proj \notin handles

(***************************************************************************)
(* Claims about the export drivers.                                        *)
(***************************************************************************)
\* the destination subdirectory of the current call held entries at the call
HadEntries == pj.pre.exists /\ pj.pre.entries # {}

Dest == fs.sub[pj.name.stem]

Ended == pj.pc \in {"returned", "raised"}

\* the names the current call wrote
Written == {e.name : e \in {d \in Dest.entries : d.by = pj.serial}}

\* the names save_hd5_3d / save_hd5_1d are to write for the loaded results
Output ==
    {IF pj.mode = "3d" THEN <<field_names[i], freq_names[i]>>
     ELSE <<field_names[i], freq_names[i], sl.ret.x0, sl.ret.y0>> :
        i \in DOMAIN Concat(efield_names, hfield_names)}

\* entries and no force_overwrite: 1 is returned, load_fields is not called
\* and the subdirectory is as it was
SkipsPopulated ==
    (Ended /\ HadEntries /\ ~pj.force) =>
        (pj.pc = "returned" /\ pj.ret = 1 /\ lf.pc = "idle" /\ Dest = pj.pre)

\* force_overwrite: from the clearing on, the subdirectory holds nothing but
\* what this call wrote
ClearsBeforeWriting ==
    (pj.pc \in {"loading", "slicing", "returned", "raised"} /\ pj.force) =>
        \A e \in Dest.entries : e.by = pj.serial

\* C6, as claimed: a populated subdirectory is skipped with outcome 1 and left
\* alone unless force_overwrite, which clears it before any output; a missing
\* or empty one gets the output and outcome 0.
C6_AsClaimed ==
    /\ SkipsPopulated
    /\ ClearsBeforeWriting
    /\ (Ended /\ ~HadEntries) =>
        (pj.pc = "returned" /\ pj.ret = 0 /\ Written = Output)

\* C6, amended: as claimed, but a call that does not skip returns 0 with its
\* output written only when load_fields and, for the 1d export, slice_1d
\* succeed; when one of them raises, the call ends with that exception and
\* has written nothing.
C6_SkipClearGenerate ==
    /\ SkipsPopulated
    /\ ClearsBeforeWriting
    /\ (Ended /\ (~HadEntries \/ pj.force)) =>
        IF lf.pc = "returned" /\ (pj.mode = "3d" \/ sl.pc = "returned")
        THEN pj.pc = "returned" /\ pj.ret = 0 /\ Written = Output /\ Dest.exists
        ELSE pj.pc = "raised" /\ Written = {} /\ pj.exc \in {lf.exc, sl.exc}

\* a second batch, with force_overwrite, has replaced an earlier entry of a
\* subdirectory by its own two files
C6_Witness ==
    /\ pj.pc = "returned"
    /\ pj.ret = 0
    /\ pj.force
    /\ pj.pre.entries # {}
    /\ bt.runs = 2
    /\ Cardinality(Dest.entries) = 2

\* C7: a batch that a solver failure of one project has ended has no later
\* project left to process.
C7_LaterProjectsProcessed ==
    (bt.pc = "aborted" /\ lf.pc = "raised") =>
        \A j \in DOMAIN bt.project_names : j <= bt.k

(***************************************************************************)
(* Claims about rotate_phase.                                              *)
(***************************************************************************)
\* C9: rotate_phase with f1 = f2 raises and returns no array.
C9_EqualReferencesFail ==
    (rp.pc \notin {"idle", "call"} /\ f1 = f2) => (rp.pc = "raised" /\ rp.out = <<>>)

PhaseZero(z) == ~z.nan /\ z.ph = <<0, 1>>

\* C10: for f1 # f2 the last column of the result has phase 0 at the row
\* nearest f1 and at the row nearest f2 (where the input is not 0 there).
C10_ZeroPhaseAtBoth ==
    (rp.pc = "returned" /\ f1 # f2) =>
        \A i \in DOMAIN f :
            (/\ LowestNearest(f, f1, i) \/ LowestNearest(f, f2, i)
             /\ A[rp.i1][1].mag # 0
             /\ A[rp.i2][1].mag # 0)
            => PhaseZero(rp.out[i][1])

\* the same for f1 and f2 that are frequencies of the array
C10_ZeroPhaseOnGrid ==
    (rp.pc = "returned" /\ f1 # f2 /\ f[rp.i1] = f1 /\ f[rp.i2] = f2) =>
        \A i \in {rp.i1, rp.i2} :
            (A[rp.i1][1].mag # 0 /\ A[rp.i2][1].mag # 0) => PhaseZero(rp.out[i][1])

(***************************************************************************)
(* Claims about kickerLong and kickerTrans.                                *)
(***************************************************************************)
\* C11: kickerLong and kickerTrans have no side effect: after a call has
\* returned, whatever z_borders was, the caller's field array holds the
\* values it held before the call.
C11_InputUnchanged ==
    kk.pc = "returned" => Earr = kk.pre

\* C12: for every z_borders = [lo, hi] the caller supplies, the integrand is
\* the input with exactly the samples at z < lo or z > hi set to zero; the
\* whole of z is used only when z_borders is not supplied.
C12_GateAsSupplied ==
    kk.pc = "returned" =>
        kk.ret.integrand = IF kk.supplied THEN gate(kk.pre, zs, kk.z_borders) ELSE kk.pre

\* C13: a call with an integration border of no width, z_borders[0] ==
\* z_borders[1], fails with an error and returns no arrays.
C13_ZeroWidthFails ==
    (kk.pc # "idle" /\ kk.supplied /\ kk.z_borders[1] = kk.z_borders[2]) =>
        kk.pc = "raised" /\ kk.ret = NoResult

\* the field array of the last call had not the shape (len(f), len(z))
ShapeDiffers == kk.pc # "idle" /\ shape(kk.pre) # <<len(fq), len(zs)>>

\* the last call raised exc, returned nothing and left the caller's array alone
FailedUntouched(exc) ==
    kk.pc = "raised" /\ kk.exc = exc /\ kk.ret = NoResult /\ Earr = kk.pre

\* C14, as stated: whenever the field array's shape differs from
\* (len(f), len(z)), kickerLong and kickerTrans fail with the shape-mismatch
\* error, before any result is computed and with the input unchanged.
C14_AsClaimed ==
    ShapeDiffers => FailedUntouched("ValueError: shape")

\* C14, amended: whenever the field array's shape differs from
\* (len(f), len(z)), the call fails before any result is computed and with
\* the input unchanged; the error is the shape-mismatch error, except in
\* kickerTrans with extra_values set, which fails with NotImplementedError.
C14_ShapeMismatchFails ==
    ShapeDiffers =>
        FailedUntouched(IF kk.fn = "kickerTrans" /\ kk.extra_values
                        THEN "NotImplementedError"
                        ELSE "ValueError: shape")

\* a call with an array of the wrong shape, a list of two betas and
\* borders that leave a position out has raised the shape-mismatch error
C14_Witness ==
    /\ ShapeDiffers
    /\ kk.exc = "ValueError: shape"
    /\ kk.beta.isList /\ Len(kk.beta.vals) = 2
    /\ kk.supplied
    /\ kk.z_borders = <<1, 1>>
    /\ \E j \in DOMAIN zs : zs[j] < 1

\* the last call was given beta as a list of n elements
BetaList(n) == kk.pc # "idle" /\ kk.beta.isList /\ Len(kk.beta.vals) = n

ExtraAsked == kk.fn = "kickerTrans" /\ kk.extra_values

\* the outcome of the last call, and the outcome the same call has with
\* the number b for beta
Outcome == [pc |-> kk.pc, exc |-> kk.exc, arr |-> Earr, ret |-> kk.ret]

OutcomeWith(b) ==
    LET beta == [isList |-> FALSE, vals |-> <<b>>]
    IN  IF kk.fn = "kickerLong"
        THEN kickerLong(kk.pre, zs, fq, beta, kk.z_borders)
        ELSE kickerTrans(kk.pre, zs, fq, beta, kk.z_borders, kk.extra_values)

\* what C15 says besides the error of a list of betas: extra_values always
\* raises NotImplementedError, a list of one beta behaves as its element,
\* and a failing call leaves the caller's array alone
ExtraAndSingle ==
    /\ ExtraAsked => FailedUntouched("NotImplementedError")
    /\ BetaList(1) => Outcome = OutcomeWith(kk.beta.vals[1])
    /\ kk.pc = "raised" => Earr = kk.pre /\ kk.ret = NoResult

\* C15, as stated: kickerTrans with extra_values set always raises
\* NotImplementedError, whatever the other arguments; kickerLong and
\* kickerTrans given a list of betas whose length is not 1 always raise the
\* unsupported-input error; a list of length 1 behaves as its element; a
\* failing call leaves the field array unmodified.
C15_AsClaimed ==
    /\ ExtraAndSingle
    /\ (kk.pc # "idle" /\ kk.beta.isList /\ ~BetaList(1)) =>
            kk.pc = "raised" /\ kk.exc \in {"ValueError: beta", "NotImplementedError"}

\* C15, amended: as stated, but a list of betas whose length is not 1
\* raises the unsupported-input error only when extra_values is not set and
\* the field array has the shape (len(f), len(z)); with a wrong shape the
\* call raises the shape-mismatch error instead.
C15_UnsupportedFails ==
    /\ ExtraAndSingle
    /\ (kk.pc # "idle" /\ kk.beta.isList /\ ~BetaList(1)) =>
            FailedUntouched(IF ExtraAsked THEN "NotImplementedError"
                            ELSE IF ShapeDiffers THEN "ValueError: shape"
                            ELSE "ValueError: beta")

\* kickerTrans with extra_values set, an array of the wrong shape and a
\* list of two betas has raised NotImplementedError, in the second call
\* made on the same array
C15_Witness ==
    /\ ExtraAsked
    /\ ShapeDiffers
    /\ BetaList(2)
    /\ kk.exc = "NotImplementedError"
    /\ kk.calls = 2

\* a call with a list of two betas and an array of the right shape has
\* raised the unsupported-input error, with borders that leave a position out
C15_WitnessBeta ==
    /\ BetaList(2)
    /\ kk.exc = "ValueError: beta"
    /\ kk.supplied /\ kk.z_borders = <<1, 1>>
    /\ \E j \in DOMAIN zs : zs[j] < 1

\* a call with a list of one beta has returned what the call with its
\* element returns
C15_WitnessSingle ==
    /\ BetaList(1)
    /\ kk.pc = "returned"
    /\ kk.ret.beta = 2

====
